---------------------------- MODULE Spec2Model ----------------------------
(***************************************************************************)
(* Exercise tracker (src/index.js): four Express handlers over two        *)
(* MongoDB collections (users, exercises).                                 *)
(*                                                                         *)
(* An async handler runs atomically up to each `await`; the awaited store  *)
(* operation takes effect, and the handler continues to its next await or  *)
(* to its response, in one later step.  Handlers of different requests     *)
(* interleave at these steps.  Every store operation may fail (reject).    *)
(*                                                                         *)
(* A request field is undefined, a text or (JSON body) a number.  Instants *)
(* are counted in ticks, TicksPerDay ticks to a calendar day; the server's *)
(* time zone is UTC.  The collections and the ids handed out are bounded   *)
(* by guards on the steps that start a request.                            *)
(***************************************************************************)
EXTENDS Integers, Sequences, FiniteSets

VARIABLES
    users,      \* the users collection: documents in insertion order
    exercises,  \* the exercises collection: documents in insertion order
    nextId,     \* the next ObjectId `new User(...)` generates
    req,        \* per connection: the handler in flight and its locals
    resp,       \* the response being sent, with what its request did; or none
    registered, \* history: the bodies of the 200 responses of POST /api/users
    answered    \* history: the bodies of the 200 responses of POST .../exercises

vars == <<users, exercises, nextId, req, resp, registered, answered>>

----------------------------------------------------------------------------
(* Bounds *)

\* Connections served at once, and the sizes of the two collections, when
\* requests run concurrently (Spec).
MaxReq == 2
MaxUsers == 2
MaxExercises == 2
\* The sizes of the two collections when requests run one at a time
\* (SpecFields, SpecLogs).
SeqUsers == 1
SeqExercises == 1
LogExercises == 3
LogUsers == 2
\* The resolution of the clock.
TicksPerDay == 2

Slots == 1 .. MaxReq
Midnight(day) == day * TicksPerDay
Noon(day) == Midnight(day) + TicksPerDay \div 2

----------------------------------------------------------------------------
(* Request values *)

Undef == [t |-> "undef", s |-> "", n |-> 0]
Str(x) == [t |-> "str", s |-> x, n |-> 0]
Num(k) == [t |-> "num", s |-> "", n |-> k]

\* JavaScript truthiness, as `!x` tests it: undefined, "" and 0 are falsy.
Truthy(x) ==
    \/ x.t = "str" /\ x.s # ""
    \/ x.t = "num" /\ x.n # 0

NaN == [nan |-> TRUE, n |-> 0]
Finite(k) == [nan |-> FALSE, n |-> k]

\* Number(text) on the texts the requests carry: whitespace is trimmed, the
\* empty text is 0, a decimal literal is its value, anything else is NaN.
NumberOfText(s) ==
    CASE s = "" -> Finite(0)
      [] s = " " -> Finite(0)
      [] s = "0" -> Finite(0)
      [] s = "1" -> Finite(1)
      [] s = "2" -> Finite(2)
      [] s = "3" -> Finite(3)
      [] s = "30" -> Finite(30)
      [] s = "-5" -> Finite(-5)
      [] OTHER -> NaN

\* Number(x): a number is itself, undefined is NaN.
Number(x) ==
    CASE x.t = "num" -> Finite(x.n)
      [] x.t = "str" -> NumberOfText(x.s)
      [] OTHER -> NaN

InvalidDate == [valid |-> FALSE, t |-> 0]
DateAt(t) == [valid |-> TRUE, t |-> t]

\* new Date(text): a date-only ISO text is midnight UTC of that day, an ISO
\* text with a time is that instant, anything else is Invalid Date.
NewDate(s) ==
    CASE s = "2024-01-01" -> DateAt(Midnight(1))
      [] s = "2024-01-02" -> DateAt(Midnight(2))
      [] s = "2024-01-01T12:00Z" -> DateAt(Noon(1))
      [] s = "2024-01-02T12:00Z" -> DateAt(Noon(2))
      [] OTHER -> InvalidDate

\* Date.prototype.toDateString(): the calendar day, the time of day dropped.
ToDateString(t) == t \div TicksPerDay

----------------------------------------------------------------------------
(* The store *)

NoId == 0
None == [_id |-> NoId, username |-> ""]

\* Mutant: the lookup answers a document for whatever id is asked.
FindByIdAny(id) == [_id |-> id, username |-> ""]

\* User.findById(id).exec(): the document, or null.
FindById(id) ==
    IF \E i \in 1 .. Len(users) : users[i]._id = id
    THEN users[CHOOSE i \in 1 .. Len(users) : users[i]._id = id]
    ELSE None

Idle == [pc |-> "idle"]

Init ==
    /\ users = <<>>
    /\ exercises = <<>>
    /\ nextId = 1
    /\ req = [s \in Slots |-> Idle]
    /\ resp = [op |-> "none"]
    /\ registered = <<>>
    /\ answered = <<>>

Quiet == resp.op = "none"

\* A request is accepted on the first free connection (connections are
\* interchangeable).
Accepts(s) == \A r \in Slots : r < s => req[r].pc # "idle"

----------------------------------------------------------------------------
(* POST /api/users *)

\* Mutant: a rejection goes unnoticed and the handler carries on.
FailedNever(ok) == FALSE

\* An awaited store operation rejected: the catch block answers (lines 53-56,
\* 68-71, 121-124, 181-184).
Failed(ok) == ~ok

\* `!username`: the field is missing or empty.
UsernameMissing(username) == ~Truthy(username)

\* Mutant: every document gets the same _id.
NewUserSameId(username) == [_id |-> 1, username |-> username.s]

\* Line 50: new User({ username }); mongoose generates the _id.
NewUser(username) == [_id |-> nextId, username |-> username.s]

\* Lines 45-51: reject a missing username, else build the document (mongoose
\* generates its _id) and await its save.
PostUsers(s, username, maxUsers) ==
    /\ Quiet
    /\ req[s].pc = "idle"
    /\ Accepts(s)
    /\ IF UsernameMissing(username)
       THEN /\ resp' = [op |-> "POST /api/users", username |-> username,
                        status |-> 400, ops |-> <<>>]
            /\ UNCHANGED <<users, exercises, nextId, req, registered, answered>>
       ELSE /\ nextId <= maxUsers
            /\ req' = [req EXCEPT ![s] =
                        [pc |-> "user.save", username |-> username,
                         user |-> NewUser(username)]]
            /\ nextId' = nextId + 1
            /\ UNCHANGED <<users, exercises, resp, registered, answered>>

\* Lines 51-56: the save resolves (200 with the saved document) or rejects (500).
UserSave(s, ok) ==
    /\ Quiet
    /\ req[s].pc = "user.save"
    /\ req' = [req EXCEPT ![s] = Idle]
    /\ IF Failed(ok)
       THEN /\ resp' = [op |-> "POST /api/users", username |-> req[s].username,
                        status |-> 500, ops |-> << <<"save", ok>> >>]
            /\ UNCHANGED <<users, registered>>
       ELSE /\ users' = Append(users, req[s].user)
            /\ resp' = [op |-> "POST /api/users", username |-> req[s].username,
                        status |-> 200, ops |-> << <<"save", ok>> >>,
                        body |-> [username |-> req[s].user.username,
                                  _id |-> req[s].user._id]]
            /\ registered' = Append(registered, [username |-> req[s].user.username,
                                                 _id |-> req[s].user._id])
    /\ UNCHANGED <<exercises, nextId, answered>>

----------------------------------------------------------------------------
(* GET /api/users *)

\* Lines 64-66: await User.find({}, 'username _id').  `since` remembers the
\* registrations already answered when the request starts.
GetUsers(s) ==
    /\ Quiet
    /\ req[s].pc = "idle"
    /\ Accepts(s)
    /\ req' = [req EXCEPT ![s] = [pc |-> "User.find", since |-> registered]]
    /\ UNCHANGED <<users, exercises, nextId, resp, registered, answered>>

\* User.find({}, 'username _id').exec(): every user document.
FindUsers == users

\* Lines 66-71: the find resolves (200 with the list) or rejects (500).
UsersFind(s, ok) ==
    /\ Quiet
    /\ req[s].pc = "User.find"
    /\ req' = [req EXCEPT ![s] = Idle]
    /\ resp' = IF Failed(ok)
               THEN [op |-> "GET /api/users", status |-> 500,
                     ops |-> << <<"find", ok>> >>, since |-> req[s].since]
               ELSE [op |-> "GET /api/users", status |-> 200,
                     ops |-> << <<"find", ok>> >>,
                     since |-> req[s].since, body |-> FindUsers]
    /\ UNCHANGED <<users, exercises, nextId, registered, answered>>

----------------------------------------------------------------------------
(* POST /api/users/:_id/exercises *)

PostsInFlight == { s \in Slots : req[s].pc \in {"post.findById", "ex.save"} }

\* Line 84: `!description || !duration`.
FieldsMissing(description, duration) == ~Truthy(description) \/ ~Truthy(duration)

\* Lines 93-99: the exercise's date; `now` is what new Date() reads.
ExerciseDate(date, now) == IF ~Truthy(date) THEN DateAt(now) ELSE NewDate(date.s)

\* Mutant: the date is not checked.
PostValidationNoDate(description, duration, date, now) ==
    IF FieldsMissing(description, duration) THEN 400
    ELSE IF Number(duration).nan THEN 400
    ELSE 0

\* Lines 84-99: the status of the synchronous validation, 0 when it passes.
PostValidation(description, duration, date, now) ==
    IF FieldsMissing(description, duration) THEN 400
    ELSE IF Number(duration).nan THEN 400
    ELSE IF ~ExerciseDate(date, now).valid THEN 400
    ELSE 0

\* A log request in flight for the same user has a post start under it.
Raced(r, id) ==
    IF r.pc \in {"logs.findById", "q.exec"} /\ r.userId = id
    THEN [r EXCEPT !.raced = TRUE]
    ELSE r

\* Lines 80-102: validate, then await User.findById(userId).
PostExercise(s, id, description, duration, date, now, maxEx) ==
    /\ Quiet
    /\ req[s].pc = "idle"
    /\ Accepts(s)
    /\ LET in == [userId |-> id, description |-> description,
                  duration |-> duration, date |-> date, now |-> now]
       IN IF PostValidation(description, duration, date, now) # 0
          THEN /\ resp' = [op |-> "POST exercises", in |-> in,
                           status |-> PostValidation(description, duration, date, now),
                           ops |-> <<>>]
               /\ UNCHANGED req
          ELSE /\ Len(exercises) + Cardinality(PostsInFlight) < maxEx
               /\ req' = [r \in Slots |->
                            IF r = s
                            THEN [pc |-> "post.findById", in |-> in,
                                  description |-> description.s,
                                  dur |-> Number(duration).n,
                                  d |-> ExerciseDate(date, now).t]
                            ELSE Raced(req[r], id)]
               /\ UNCHANGED resp
    /\ UNCHANGED <<users, exercises, nextId, registered, answered>>

\* Mutant: the null check is left out.
UserMissingNever(user) == FALSE

\* Line 103: `!user`.
UserMissing(user) == user._id = NoId

\* Lines 102-112: the lookup rejects (500), finds nobody (404), or the
\* exercise is built and its save awaited.
PostLookup(s, ok) ==
    /\ Quiet
    /\ req[s].pc = "post.findById"
    /\ LET user == FindById(req[s].in.userId)
       IN IF Failed(ok)
          THEN /\ resp' = [op |-> "POST exercises", in |-> req[s].in, status |-> 500,
                           ops |-> << <<"findById", ok>> >>]
               /\ req' = [req EXCEPT ![s] = Idle]
          ELSE IF UserMissing(user)
          THEN /\ resp' = [op |-> "POST exercises", in |-> req[s].in, status |-> 404,
                           ops |-> << <<"findById", ok>> >>]
               /\ req' = [req EXCEPT ![s] = Idle]
          ELSE /\ req' = [req EXCEPT ![s] =
                            [pc |-> "ex.save", in |-> req[s].in, user |-> user,
                             ops |-> << <<"findById", ok>> >>,
                             ex |-> [userId |-> user._id,
                                     description |-> req[s].description,
                                     duration |-> req[s].dur,
                                     date |-> req[s].d]]]
               /\ UNCHANGED resp
    /\ UNCHANGED <<users, exercises, nextId, registered, answered>>

\* Lines 114-120: the body of the 200 response.
ExerciseCreated(user, ex) ==
    [_id |-> user._id, username |-> user.username,
     date |-> ToDateString(ex.date), duration |-> ex.duration,
     description |-> ex.description]

\* Lines 112-124: the save resolves (200) or rejects (500).
ExerciseSave(s, ok) ==
    /\ Quiet
    /\ req[s].pc = "ex.save"
    /\ req' = [req EXCEPT ![s] = Idle]
    /\ IF Failed(ok)
       THEN /\ resp' = [op |-> "POST exercises", in |-> req[s].in, status |-> 500,
                        ops |-> Append(req[s].ops, <<"save", ok>>)]
            /\ UNCHANGED <<exercises, answered>>
       ELSE /\ exercises' = Append(exercises, req[s].ex)
            /\ resp' = [op |-> "POST exercises", in |-> req[s].in, status |-> 200,
                        ops |-> Append(req[s].ops, <<"save", ok>>),
                        body |-> ExerciseCreated(req[s].user, req[s].ex)]
            /\ answered' = Append(answered, ExerciseCreated(req[s].user, req[s].ex))
    /\ UNCHANGED <<users, nextId, registered>>

----------------------------------------------------------------------------
(* GET /api/users/:_id/logs *)

NoBound == [on |-> FALSE, t |-> 0]
Bound(t) == [on |-> TRUE, t |-> t]
NoLimit == 0

\* Histories of the successful exercise posts of user `id`.
AnsweredFor(id) == { i \in 1 .. Len(answered) : answered[i]._id = id }

\* Lines 135-140: await User.findById(userId).  `k`, `busy` and `raced`
\* remember how many posts for the user were answered 200 when the request
\* starts, whether one was in flight then, and whether one started since.
GetLogs(s, id, from, to, limit) ==
    /\ Quiet
    /\ req[s].pc = "idle"
    /\ Accepts(s)
    /\ req' = [req EXCEPT ![s] =
                [pc |-> "logs.findById", userId |-> id,
                 from |-> from, to |-> to, limit |-> limit,
                 k |-> Cardinality(AnsweredFor(id)),
                 busy |-> \E r \in PostsInFlight : req[r].in.userId = id,
                 raced |-> FALSE]]
    /\ UNCHANGED <<users, exercises, nextId, resp, registered, answered>>

\* Lines 146-165: the status of the query building, 0 when it passes.
LogsValidation(from, to, limit) ==
    IF Truthy(from) /\ ~NewDate(from.s).valid THEN 400
    ELSE IF Truthy(to) /\ ~NewDate(to.s).valid THEN 400
    ELSE IF Truthy(limit) /\ (Number(limit).nan \/ Number(limit).n <= 0) THEN 400
    ELSE 0

\* Lines 144-165: the query: the owner, the date filter and the limit.
LogsQuery(user, from, to, limit) ==
    [userId |-> user._id,
     gte |-> IF Truthy(from) THEN Bound(NewDate(from.s).t) ELSE NoBound,
     lte |-> IF Truthy(to) THEN Bound(NewDate(to.s).t) ELSE NoBound,
     limit |-> IF Truthy(limit) THEN Number(limit).n ELSE NoLimit]

LogInputs(r) ==
    [userId |-> r.userId, from |-> r.from, to |-> r.to, limit |-> r.limit,
     k |-> r.k, busy |-> r.busy, raced |-> r.raced]

\* Lines 140-165: the lookup rejects (500), finds nobody (404), the query
\* building fails (400), or the query is built and awaited.
LogsLookup(s, ok) ==
    /\ Quiet
    /\ req[s].pc = "logs.findById"
    /\ LET r == req[s]
           user == FindById(r.userId)
       IN IF Failed(ok)
          THEN /\ resp' = [op |-> "GET logs", in |-> LogInputs(r), status |-> 500,
                           ops |-> << <<"findById", ok>> >>]
               /\ req' = [req EXCEPT ![s] = Idle]
          ELSE IF UserMissing(user)
          THEN /\ resp' = [op |-> "GET logs", in |-> LogInputs(r), status |-> 404,
                           ops |-> << <<"findById", ok>> >>]
               /\ req' = [req EXCEPT ![s] = Idle]
          ELSE IF LogsValidation(r.from, r.to, r.limit) # 0
          THEN /\ resp' = [op |-> "GET logs", in |-> LogInputs(r),
                           status |-> LogsValidation(r.from, r.to, r.limit),
                           ops |-> << <<"findById", ok>> >>]
               /\ req' = [req EXCEPT ![s] = Idle]
          ELSE /\ req' = [req EXCEPT ![s] =
                            [pc |-> "q.exec", userId |-> r.userId,
                             from |-> r.from, to |-> r.to, limit |-> r.limit,
                             k |-> r.k, busy |-> r.busy, raced |-> r.raced,
                             user |-> user, ops |-> << <<"findById", ok>> >>,
                             query |-> LogsQuery(user, r.from, r.to, r.limit)]]
               /\ UNCHANGED resp
    /\ UNCHANGED <<users, exercises, nextId, registered, answered>>

\* Mutant: the lower bound is exclusive ($gt for $gte).
MatchesExclusive(q, e) ==
    /\ e.userId = q.userId
    /\ q.gte.on => e.date > q.gte.t
    /\ q.lte.on => e.date <= q.lte.t

\* The filter of Exercise.find(query): the owner and the inclusive bounds.
Matches(q, e) ==
    /\ e.userId = q.userId
    /\ q.gte.on => e.date >= q.gte.t
    /\ q.lte.on => e.date <= q.lte.t

\* Mutant: the documents of every user are selected.
MatchingAnyOwner(q) ==
    { i \in 1 .. Len(exercises) :
        /\ q.gte.on => exercises[i].date >= q.gte.t
        /\ q.lte.on => exercises[i].date <= q.lte.t }

\* The documents Exercise.find(query) selects.
Matching(q) == { i \in 1 .. Len(exercises) : Matches(q, exercises[i]) }

\* .sort({ date: 1 }): ascending dates.
InOrder(d1, d2) == d1 <= d2

\* The orders .sort({ date: 1 }) may give the matching documents (MongoDB
\* leaves the order of equal dates open).
Sorted(q) ==
    LET I == Matching(q)
        n == Cardinality(I)
    IN { f \in [1 .. n -> I] :
            /\ \A a, b \in 1 .. n : a # b => f[a] # f[b]
            /\ \A a, b \in 1 .. n :
                  a < b => InOrder(exercises[f[a]].date, exercises[f[b]].date) }

\* Mutant: one document too many.
LimitedOffByOne(f, lim) ==
    IF lim = NoLimit \/ lim + 1 >= Len(f) THEN f ELSE SubSeq(f, 1, lim + 1)

\* .limit(lim): the first lim documents; all of them without a limit.
Limited(f, lim) ==
    IF lim = NoLimit \/ lim >= Len(f) THEN f ELSE SubSeq(f, 1, lim)

\* .select('description duration date -_id')
Selected(e) ==
    [description |-> e.description, duration |-> e.duration, date |-> e.date]

\* Lines 169-173: an entry of the log.
LogEntry(e) ==
    [description |-> e.description, duration |-> e.duration,
     date |-> ToDateString(e.date)]

\* Lines 175-180: the body of the 200 response.
LogBody(user, docs) ==
    [_id |-> user._id, username |-> user.username, count |-> Len(docs),
     log |-> [j \in 1 .. Len(docs) |-> LogEntry(docs[j])]]

\* Lines 167-184: the query resolves (200 with the log) or rejects (500).
\* `docs` is what q.exec() returned, `query` the query it ran.
LogsFind(s, ok) ==
    /\ Quiet
    /\ req[s].pc = "q.exec"
    /\ req' = [req EXCEPT ![s] = Idle]
    /\ LET r == req[s] IN
       IF Failed(ok)
       THEN resp' = [op |-> "GET logs", in |-> LogInputs(r), status |-> 500,
                     ops |-> Append(r.ops, <<"find", ok>>)]
       ELSE \E f \in Sorted(r.query) :
              LET g == Limited(f, r.query.limit)
                  docs == [j \in 1 .. Len(g) |-> Selected(exercises[g[j]])]
              IN resp' = [op |-> "GET logs", in |-> LogInputs(r), status |-> 200,
                          ops |-> Append(r.ops, <<"find", ok>>),
                          docs |-> docs, body |-> LogBody(r.user, docs)]
    /\ UNCHANGED <<users, exercises, nextId, registered, answered>>

----------------------------------------------------------------------------
(* The server *)

\* The response is on the wire; nothing of the store or of the requests in
\* flight changes.
Sent ==
    /\ ~Quiet
    /\ resp' = [op |-> "none"]
    /\ UNCHANGED <<users, exercises, nextId, req, registered, answered>>

\* The steps of the server, for requests drawn from the inputs D.
Next(D) ==
    \/ \E s \in D.slots, u \in D.usernames : PostUsers(s, u, D.maxUsers)
    \/ \E s \in D.slots, ok \in D.oks : UserSave(s, ok)
    \/ \E s \in D.slots : GetUsers(s)
    \/ \E s \in D.slots, ok \in D.oks : UsersFind(s, ok)
    \/ \E s \in D.slots, id \in D.ids, de \in D.descriptions, du \in D.durations,
          da \in D.dates, now \in D.nows :
          PostExercise(s, id, de, du, da, now, D.maxEx)
    \/ \E s \in D.slots, ok \in D.oks : PostLookup(s, ok)
    \/ \E s \in D.slots, ok \in D.oks : ExerciseSave(s, ok)
    \/ \E s \in D.slots, id \in D.ids, from \in D.froms, to \in D.tos,
          limit \in D.limits : GetLogs(s, id, from, to, limit)
    \/ \E s \in D.slots, ok \in D.oks : LogsLookup(s, ok)
    \/ \E s \in D.slots, ok \in D.oks : LogsFind(s, ok)
    \/ Sent

\* Concurrent requests of every kind.
ApiInputs ==
    [slots |-> Slots,
     usernames |-> {Undef, Str(""), Str("ann"), Str("bob")},
     ids |-> 1 .. (MaxUsers + 1),
     descriptions |-> {Str("run")},
     durations |-> {Str("30")},
     dates |-> {Undef, Str("2024-01-01")},
     nows |-> {Noon(2)},
     froms |-> {Undef},
     tos |-> {Undef},
     limits |-> {Undef},
     oks |-> BOOLEAN,
     maxUsers |-> MaxUsers,
     maxEx |-> MaxExercises]

Spec == Init /\ [][Next(ApiInputs)]_vars

\* One request at a time, every kind of field value.
FieldInputs ==
    [slots |-> {1},
     usernames |-> {Undef, Str(""), Num(0), Str("ann")},
     ids |-> 1 .. (SeqUsers + 1),
     descriptions |-> {Undef, Str(""), Str("run")},
     durations |-> {Undef, Str(""), Str(" "), Str("abc"), Str("0"), Str("-5"),
                    Str("30"), Num(0), Num(30)},
     dates |-> {Undef, Str(""), Str("2024-01-01"), Str("2024-01-01T12:00Z"),
                Str("soon")},
     nows |-> {Noon(1)},
     froms |-> {Undef, Str("2024-01-01"), Str("soon")},
     tos |-> {Undef, Str("2024-01-02"), Str("soon")},
     limits |-> {Undef, Str(""), Str("abc"), Str("0"), Str("-5"), Str("1")},
     oks |-> BOOLEAN,
     maxUsers |-> SeqUsers,
     maxEx |-> SeqExercises]

SpecFields == Init /\ [][Next(FieldInputs)]_vars

\* The logs of two users, one request at a time and no store failure:
\* exercises at three instants, queries of every range, with and without limit.
LogInputsOf ==
    [slots |-> {1},
     usernames |-> {Str("ann")},
     ids |-> 1 .. LogUsers,
     descriptions |-> {Str("run")},
     durations |-> {Str("30")},
     dates |-> {Undef, Str("2024-01-01"), Str("2024-01-02")},
     nows |-> {Noon(1)},
     froms |-> {Undef, Str("2024-01-01"), Str("2024-01-02")},
     tos |-> {Undef, Str("2024-01-01"), Str("2024-01-02")},
     limits |-> {Undef, Str("2")},
     oks |-> {TRUE},
     maxUsers |-> LogUsers,
     maxEx |-> LogExercises]

SpecLogs == Init /\ [][Next(LogInputsOf)]_vars

----------------------------------------------------------------------------
(* Vocabulary of the properties *)

IsPostUsers == resp.op = "POST /api/users"
IsGetUsers == resp.op = "GET /api/users"
IsPostExercise == resp.op = "POST exercises"
IsGetLogs == resp.op = "GET logs"
LogsOk == IsGetLogs /\ resp.status = 200

\* A user with this id is stored.
Stored(id) == \E j \in 1 .. Len(users) : users[j]._id = id

\* A field that is missing or empty.
Absent(x) == x.t = "undef" \/ (x.t = "str" /\ x.s = "")

\* A date text that is given and does not parse.
Unparseable(x) == Truthy(x) /\ ~NewDate(x.s).valid

\* What line 84-98 reject: a falsy description or duration, a duration that is
\* not a number, a date that does not parse.
PostRejected(in) ==
    \/ ~Truthy(in.description)
    \/ ~Truthy(in.duration)
    \/ Number(in.duration).nan
    \/ Unparseable(in.date)

\* What lines 146-163 reject: a from or to that does not parse, a limit that is
\* not a number or not positive.
LogsRejected(in) ==
    \/ Unparseable(in.from)
    \/ Unparseable(in.to)
    \/ Truthy(in.limit) /\ (Number(in.limit).nan \/ Number(in.limit).n <= 0)

OpNames(ops) == [i \in 1 .. Len(ops) |-> ops[i][1]]
NoSave(ops) == \A i \in 1 .. Len(ops) : ops[i][1] # "save"
LookupFailed(ops) == Len(ops) >= 1 /\ ops[1] = <<"findById", FALSE>>
SomeOpFailed(ops) == \E i \in 1 .. Len(ops) : ~ops[i][2]

\* The number of places of a sequence that hold x.
Count(seq, x) == Cardinality({ i \in 1 .. Len(seq) : seq[i] = x })

Min(a, b) == IF a <= b THEN a ELSE b

\* The calendar day of an instant.
DayOf(t) == t \div TicksPerDay

\* The stored exercise i as a query returns it.
Doc(i) ==
    [description |-> exercises[i].description, duration |-> exercises[i].duration,
     date |-> exercises[i].date]

\* The exercises of the queried user, and those within the query's bounds.
OwnedBy(id) == { i \in 1 .. Len(exercises) : exercises[i].userId = id }
Within(in, t) ==
    /\ Truthy(in.from) => NewDate(in.from.s).t <= t
    /\ Truthy(in.to) => t <= NewDate(in.to.s).t
InBounds(in) == { i \in OwnedBy(in.userId) : Within(in, exercises[i].date) }

\* A step that sends the response of a request.
Responds == resp.op = "none" /\ resp'.op # "none"

----------------------------------------------------------------------------
(* C1 *)

\* C1 as stated: a request for a user id that identifies no stored user is
\* answered 404 by POST /api/users/:id/exercises and by GET /api/users/:id/logs,
\* whatever else it contains.
C1_Original ==
    (IsPostExercise \/ IsGetLogs) /\ ~Stored(resp.in.userId) => resp.status = 404

\* C1, amended: for a user id that identifies no stored user, GET logs answers
\* 404 whatever its from, to and limit are; POST exercises answers 400 when its
\* description or duration is missing, its duration is not a number or its date
\* does not parse, and 404 otherwise; a lookup that fails is answered 500.
\* No save is attempted and the step that answers leaves both collections as
\* they were.
C1_UnknownUser ==
    /\ [](((IsPostExercise \/ IsGetLogs) /\ ~Stored(resp.in.userId)) =>
            /\ NoSave(resp.ops)
            /\ IsGetLogs =>
                 resp.status = IF LookupFailed(resp.ops) THEN 500 ELSE 404
            /\ IsPostExercise =>
                 resp.status = IF PostRejected(resp.in) THEN 400
                               ELSE IF LookupFailed(resp.ops) THEN 500 ELSE 404)
    /\ [][(Responds /\ resp'.op \in {"POST exercises", "GET logs"}
             /\ ~(\E j \in 1 .. Len(users') : users'[j]._id = resp'.in.userId))
           => users' = users /\ exercises' = exercises]_vars

\* An exercise posted with valid fields for an unknown user is answered 404, in
\* a state where a user and an exercise are stored.
C1_Witness ==
    /\ IsPostExercise /\ resp.status = 404
    /\ ~Stored(resp.in.userId) /\ ~PostRejected(resp.in)
    /\ Len(users) > 0

----------------------------------------------------------------------------
(* C2 *)

\* C2: every stored exercise has the id of a stored user as its userId, and
\* that user was stored before the step that inserts the exercise.
C2_OwnerExists ==
    /\ [](\A i \in 1 .. Len(exercises) : Stored(exercises[i].userId))
    /\ [][\A i \in (Len(exercises) + 1) .. Len(exercises') :
            Stored(exercises'[i].userId)]_vars

\* Exercises are stored for the second user while another request is in flight.
C2_Witness ==
    /\ \E i \in 1 .. Len(exercises) : exercises[i].userId = 2
    /\ Len(exercises) = MaxExercises
    /\ \E s \in Slots : req[s].pc # "idle"

----------------------------------------------------------------------------
(* C3 *)

\* C3 as stated: a request whose input fails validation or query building is
\* answered 400 having performed no store operation.
C3_Original ==
    \/ IsPostExercise /\ PostRejected(resp.in)
    \/ IsGetLogs /\ LogsRejected(resp.in)
    => resp.status = 400 /\ resp.ops = <<>>

\* C3, amended: an exercise post whose input fails validation is answered 400
\* having performed no store operation.  A log lookup whose from, to or limit
\* fails query building has performed exactly one store operation, the user
\* lookup, and never the find: it is answered 400 when the lookup found the
\* user, 404 when it found none and 500 when it failed.
C3_ValidationOrder ==
    /\ IsPostExercise /\ PostRejected(resp.in) =>
         resp.status = 400 /\ resp.ops = <<>>
    /\ IsGetLogs /\ LogsRejected(resp.in) =>
         /\ OpNames(resp.ops) = <<"findById">>
         /\ resp.status = IF LookupFailed(resp.ops) THEN 500
                          ELSE IF Stored(resp.in.userId) THEN 400 ELSE 404

\* A log lookup with an unparseable `to` for a stored user is answered 400 after
\* its user lookup.
C3_Witness ==
    /\ IsGetLogs /\ resp.status = 400
    /\ Unparseable(resp.in.to)
    /\ resp.ops = << <<"findById", TRUE>> >>

----------------------------------------------------------------------------
(* C4 *)

----------------------------------------------------------------------------
(* C5 *)

\* C5: with a valid limit L and m matching exercises, a successful log query
\* returns min(L, m) entries, those of earliest date, and count is the length
\* of the returned log; without a limit count is m.
C5_Limit ==
    LogsOk =>
      LET docs == resp.docs
          in == resp.in
          m == Cardinality(InBounds(in))
          L == Number(in.limit).n
      IN /\ resp.body.count = Len(resp.body.log)
         /\ resp.body.count = Len(docs)
         /\ ~Truthy(in.limit) => resp.body.count = m
         /\ Truthy(in.limit) =>
              /\ Len(docs) = Min(L, m)
              /\ \A i \in InBounds(in) :
                   LET t == exercises[i].date
                   IN Cardinality({ j \in 1 .. Len(docs) : docs[j].date <= t }) =
                        Min(L, Cardinality({ i2 \in InBounds(in) :
                                               exercises[i2].date <= t }))

\* limit=2 with three matching exercises of different dates: two are returned.
C5_Witness ==
    /\ LogsOk /\ Truthy(resp.in.limit) /\ Number(resp.in.limit).n = 2
    /\ Cardinality(InBounds(resp.in)) = 3
    /\ resp.body.count = 2
    /\ exercises[1].date > exercises[2].date

----------------------------------------------------------------------------
(* C6 *)

\* The entries the first k successful posts for a user carry.
PostedEntry(i) ==
    [description |-> answered[i].description, duration |-> answered[i].duration,
     date |-> answered[i].date]
FirstAnswered(id, k) ==
    { i \in AnsweredFor(id) :
        Cardinality({ i2 \in AnsweredFor(id) : i2 <= i }) <= k }
ExactlyThePosts(id, k) ==
    /\ resp.body.count = k
    /\ \A j \in 1 .. Len(resp.body.log) :
          Count(resp.body.log, resp.body.log[j]) =
            Cardinality({ i \in FirstAnswered(id, k) :
                            PostedEntry(i) = resp.body.log[j] })

Unfiltered(in) == ~Truthy(in.from) /\ ~Truthy(in.to) /\ ~Truthy(in.limit)

\* C6 as stated: a log query without from, to or limit that starts when k posts
\* for its user have been answered 200 and no post for that user is in flight
\* returns exactly k entries, those of the k posts.
C6_Original ==
    LogsOk /\ Unfiltered(resp.in) /\ ~resp.in.busy =>
      ExactlyThePosts(resp.in.userId, resp.in.k)

\* C6, amended: such a query returns exactly k entries, those of the k posts,
\* provided also that no post for that user starts before the query is
\* answered.
C6_ReadYourPosts ==
    LogsOk /\ Unfiltered(resp.in) /\ ~resp.in.busy /\ ~resp.in.raced =>
      ExactlyThePosts(resp.in.userId, resp.in.k)

\* A query started after one post for its user was answered, with no post for
\* that user under way before its find, returns that one entry while the store
\* also holds an exercise of another user.
C6_Witness ==
    /\ LogsOk /\ Unfiltered(resp.in) /\ ~resp.in.busy /\ ~resp.in.raced
    /\ resp.in.k = 1
    /\ Len(exercises) = 2
    /\ exercises[1].userId # exercises[2].userId

----------------------------------------------------------------------------
(* C7 *)

\* C7: a POST /api/users with a non-empty username is never answered 400, and
\* when answered 200 it has stored a user with that username and an id that
\* no user stored before has; every GET /api/users that starts afterwards and
\* is answered 200 lists that username with that id; a missing or empty
\* username is answered 400 and stores nothing.
C7_Registration ==
    /\ [](IsPostUsers /\ ~Absent(resp.username) => resp.status # 400)
    /\ [](IsPostUsers /\ resp.status = 200 =>
            /\ resp.body.username = resp.username.s
            /\ Len(users) > 0
            /\ users[Len(users)] = [_id |-> resp.body._id,
                                    username |-> resp.body.username]
            /\ \A j \in 1 .. (Len(users) - 1) : users[j]._id # resp.body._id)
    /\ [](IsGetUsers /\ resp.status = 200 =>
            \A i \in 1 .. Len(resp.since) :
               \E j \in 1 .. Len(resp.body) :
                  /\ resp.body[j].username = resp.since[i].username
                  /\ resp.body[j]._id = resp.since[i]._id)
    /\ [](IsPostUsers /\ Absent(resp.username) =>
            resp.status = 400 /\ resp.ops = <<>>)
    /\ [][Responds /\ resp'.op = "POST /api/users" /\ resp'.status = 400
            => users' = users]_vars

\* The same username is registered a second time, under a new id.
C7_Witness ==
    /\ IsPostUsers /\ resp.status = 200
    /\ Len(users) = 2
    /\ users[1].username = users[2].username

----------------------------------------------------------------------------
(* C8 *)

\* C8: an exercise post for a stored user with a non-empty description and a
\* valid or omitted date, whose store operations succeed, is answered 400
\* exactly when its duration is absent or does not parse to a number; otherwise
\* it is answered 200 and an exercise with the parsed duration is stored.
C8_Duration ==
    (/\ IsPostExercise
     /\ Stored(resp.in.userId)
     /\ ~Absent(resp.in.description)
     /\ ~Unparseable(resp.in.date)
     /\ ~SomeOpFailed(resp.ops))
    =>
    /\ resp.status = 400 <=>
         (Absent(resp.in.duration) \/ Number(resp.in.duration).nan)
    /\ resp.status # 400 =>
         /\ resp.status = 200
         /\ resp.body.duration = Number(resp.in.duration).n
         /\ exercises[Len(exercises)].duration = Number(resp.in.duration).n

----------------------------------------------------------------------------
(* C9 *)

\* C9: an exercise posted without a date is stored with the calendar day of the
\* moment it is posted, and a log query with from and to returns every exercise
\* of its user whose calendar day lies between the days of from and of to.
C9_CalendarDays ==
    /\ (IsPostExercise /\ resp.status = 200 /\ ~Truthy(resp.in.date)) =>
         /\ resp.body.date = DayOf(resp.in.now)
         /\ DayOf(exercises[Len(exercises)].date) = DayOf(resp.in.now)
    /\ (LogsOk /\ Truthy(resp.in.from) /\ Truthy(resp.in.to)
          /\ ~Truthy(resp.in.limit)) =>
         \A i \in OwnedBy(resp.in.userId) :
            (/\ DayOf(NewDate(resp.in.from.s).t) <= DayOf(exercises[i].date)
             /\ DayOf(exercises[i].date) <= DayOf(NewDate(resp.in.to.s).t))
            => \E j \in 1 .. Len(resp.docs) : resp.docs[j] = Doc(i)

----------------------------------------------------------------------------
(* C10 *)

\* The store operations a request may have performed, in order.
AllowedOps(op) ==
    CASE op = "POST /api/users" -> { <<>>, <<"save">> }
      [] op = "GET /api/users" -> { <<"find">> }
      [] op = "POST exercises" -> { <<>>, <<"findById">>, <<"findById", "save">> }
      [] op = "GET logs" -> { <<"findById">>, <<"findById", "find">> }
      [] OTHER -> {}

\* C10: a request performs at most two store operations, the user lookup then
\* the insert or find, each at most once; after a store operation that fails it
\* performs no other and is answered 500; a request ends in the step that sends
\* its one response.
C10_StoreOperations ==
    /\ [](resp.op # "none" =>
            /\ Len(resp.ops) <= 2
            /\ OpNames(resp.ops) \in AllowedOps(resp.op)
            /\ \A i \in 1 .. (Len(resp.ops) - 1) : resp.ops[i][2]
            /\ SomeOpFailed(resp.ops) <=> resp.status = 500)
    /\ [][(\E s \in Slots : req[s].pc # "idle" /\ req'[s].pc = "idle")
            => Responds]_vars

\* The save of an exercise fails after a successful lookup: 500, two operations.
C10_Witness ==
    /\ IsPostExercise /\ resp.status = 500
    /\ resp.ops = << <<"findById", TRUE>>, <<"save", FALSE>> >>
=============================================================================
